---- MODULE Spec2Model ----
(***************************************************************************)
(* GtkTim2SortModel (gtk/gtktim2sortmodel.c): a list model that sorts the  *)
(* items of a source GListModel with a GtkSorter, synchronously or in idle *)
(* callbacks.  The view is the record `self` (struct _GtkTim2SortModel);   *)
(* the attached source model and the attached sorter are the environment.  *)
(* Each C function is an operator from the view (and its inputs) to the    *)
(* view afterwards, the notifications it emitted and whether a g_assert    *)
(* failed; each action of Next is one public call, signal handler or idle  *)
(* callback.                                                               *)
(*                                                                         *)
(* GtkTimSort (gtktimsortprivate.h) is driven but not defined by the two   *)
(* source files; it is modelled from its contract as a stepwise natural    *)
(* merge sort with a run stack.                                            *)
(***************************************************************************)
EXTENDS Integers, Sequences, FiniteSets, TLC

\* ---- bounds -------------------------------------------------------------
NumElems == 3      \* element handles are 1..NumElems
MaxLen == 3        \* longest source sequence
MaxBudget == 2     \* engine steps a tick can perform before its deadline
MaxDrift == 1      \* source edits followed once the buffer is out of step with the source
NumObjects == 2    \* GListModel objects, and GtkSorter objects
MaxStale == 3      \* source edits followed on a stale buffer (SpecStale)

Elems == 1..NumElems
Cmps == {"none", "asc", "tie"}   \* what a sorter currently compares by

Min(a, b) == IF a < b THEN a ELSE b
Max(a, b) == IF a > b THEN a ELSE b

RECURSIVE SumSeq(_)
SumSeq(s) == IF s = <<>> THEN 0 ELSE Head(s) + SumSeq(Tail(s))

Range(s) == {s[i] : i \in DOMAIN s}

\* duplicate-free sequences over S of length at most n
RECURSIVE DistinctSeqs(_, _)
DistinctSeqs(S, n) ==
  IF n = 0 THEN {<<>>}
  ELSE LET shorter == DistinctSeqs(S, n - 1)
       IN  shorter \cup {Append(s, e) : s \in shorter, e \in S} 

NoDup(s) == \A i, j \in DOMAIN s : i # j => s[i] # s[j]

Sources == {s \in DistinctSeqs(Elems, MaxLen) : NoDup(s)}

\* ---- GtkSorter ----------------------------------------------------------
Key(c, e) ==
  CASE c = "asc"  -> e
    [] c = "tie"  -> e \div 2
    [] OTHER      -> 0

gtk_sorter_compare(c, a, b) ==
  IF Key(c, a) < Key(c, b) THEN 0 - 1
  ELSE IF Key(c, a) > Key(c, b) THEN 1 ELSE 0

gtk_sorter_get_order(c) ==
  CASE c = "none" -> "NONE"
    [] c = "tie"  -> "PARTIAL"
    [] OTHER      -> "TOTAL"

sort_func(a, b, data) == gtk_sorter_compare(data, a.item, b.item)

\* ---- GtkTimSort ---------------------------------------------------------
\* base: elements already covered by runs; size: elements not yet in a run;
\* runs: lengths of the pending runs, bottom of the stack first;
\* max_merge_size: 0 is unlimited; data: the sorter handed to sort_func.
SortIdle == [base |-> 0, size |-> 0, runs |-> <<>>, max_merge_size |-> 0, data |-> 0]

gtk_tim_sort_init(a, data) ==
  [base |-> 0, size |-> Len(a), runs |-> <<>>, max_merge_size |-> 0, data |-> data]

RECURSIVE gtk_tim_sort_set_runs(_, _)
gtk_tim_sort_set_runs(sort, runs) ==
  IF runs = <<>> THEN sort
  ELSE gtk_tim_sort_set_runs(
         [sort EXCEPT !.runs = Append(@, Head(runs)),
                      !.base = @ + Head(runs),
                      !.size = @ - Head(runs)],
         Tail(runs))

gtk_tim_sort_get_runs(sort) == sort.runs

gtk_tim_sort_set_max_merge_size(sort, n) == [sort EXCEPT !.max_merge_size = n]

gtk_tim_sort_finish(sort) == SortIdle

Reverse(s) == [i \in 1..Len(s) |-> s[Len(s) + 1 - i]]

\* SubSeq with 0-based offset and length
Slice(a, off, len) == SubSeq(a, off + 1, off + len)

Splice(a, off, len, mid) == Slice(a, 0, off) \o mid \o Slice(a, off + len, Len(a) - off - len)

\* smallest range of indices (0-based) where a and b differ; a, b of equal length
DiffRange(a, b) ==
  LET d == {i \in 1..Len(a) : a[i] # b[i]}
  IN  IF d = {} THEN [base |-> 0, len |-> 0]
      ELSE LET lo == CHOOSE i \in d : \A j \in d : i <= j
               hi == CHOOSE i \in d : \A j \in d : i >= j
           IN  [base |-> lo - 1, len |-> hi - lo + 1]

\* length of the natural run at the head of s and whether it is descending
RunLen(s, c) ==
  IF Len(s) <= 1 THEN [len |-> Len(s), desc |-> FALSE]
  ELSE LET desc == sort_func(s[2], s[1], c) < 0
           ok(h) == \A j \in 1..(h - 1) :
                      IF desc THEN sort_func(s[j + 1], s[j], c) < 0
                              ELSE sort_func(s[j + 1], s[j], c) >= 0
           h == CHOOSE k \in 2..Len(s) : ok(k) /\ (k = Len(s) \/ ~ok(k + 1))
       IN  [len |-> h, desc |-> desc]

RECURSIVE MergeRuns(_, _, _)
MergeRuns(x, y, c) ==
  IF x = <<>> THEN y
  ELSE IF y = <<>> THEN x
  ELSE IF sort_func(y[1], x[1], c) < 0
       THEN <<y[1]>> \o MergeRuns(x, Tail(y), c)
       ELSE <<x[1]>> \o MergeRuns(Tail(x), y, c)

\* merge the runs i and i+1 of the stack (1-based)
gtk_tim_sort_merge_at(sort, a, i, c) ==
  LET base1 == SumSeq(SubSeq(sort.runs, 1, i - 1))
      len1 == sort.runs[i]
      len2 == sort.runs[i + 1]
      merged == MergeRuns(Slice(a, base1, len1), Slice(a, base1 + len1, len2), c)
      b == Splice(a, base1, len1 + len2, merged)
      runs == SubSeq(sort.runs, 1, i - 1) \o <<len1 + len2>>
                \o SubSeq(sort.runs, i + 2, Len(sort.runs))
  IN  [more |-> TRUE, sort |-> [sort EXCEPT !.runs = runs], items |-> b,
       change |-> DiffRange(a, b)]

\* index of the merge the stack invariant asks for, 0 if none
MergeCollapseAt(runs) ==
  LET n == Len(runs) - 1
  IN  IF n < 1 THEN 0
      ELSE IF n > 1 /\ runs[n - 1] <= runs[n] + runs[n + 1]
           THEN (IF runs[n - 1] < runs[n + 1] THEN n - 1 ELSE n)
      ELSE IF runs[n] <= runs[n + 1] THEN n
      ELSE 0

MergeForceCollapseAt(runs) ==
  LET n == Len(runs) - 1
  IN  IF n < 1 THEN 0
      ELSE IF n > 1 /\ runs[n - 1] < runs[n + 1] THEN n - 1 ELSE n

gtk_tim_sort_append_run(sort, a, c) ==
  LET rest == Slice(a, sort.base, sort.size)
      r == RunLen(rest, c)
      run == IF r.desc THEN Reverse(SubSeq(rest, 1, r.len)) ELSE SubSeq(rest, 1, r.len)
      b == Splice(a, sort.base, r.len, run)
  IN  [more |-> TRUE,
       sort |-> [sort EXCEPT !.runs = Append(@, r.len),
                             !.base = @ + r.len,
                             !.size = @ - r.len],
       items |-> b,
       change |-> DiffRange(a, b)]

\* one step: a merge the stack invariant asks for, else the next run, else a
\* merge of the remaining runs; more = FALSE when nothing is left to do
gtk_tim_sort_step(sort, a, c) ==
  IF MergeCollapseAt(sort.runs) > 0
    THEN gtk_tim_sort_merge_at(sort, a, MergeCollapseAt(sort.runs), c)
  ELSE IF sort.size > 0
    THEN gtk_tim_sort_append_run(sort, a, c)
  ELSE IF MergeForceCollapseAt(sort.runs) > 0
    THEN gtk_tim_sort_merge_at(sort, a, MergeForceCollapseAt(sort.runs), c)
  ELSE [more |-> FALSE, sort |-> sort, items |-> a, change |-> [base |-> 0, len |-> 0]]

\* ---- GtkTim2SortModel ---------------------------------------------------
\* A handler is split where it calls another one: the operator named after
\* the C function makes the call and hands what it returned to the operator
\* for the rest of the function.  Where the call is written as the one
\* element of a set, {f(x) : x \in {call}}, that is the same hand-over with
\* the call evaluated once.
MaxMergeSize == 1024

SortItem(item, position) == [item |-> item, position |-> position]

Note(position, removed, added) == [position |-> position, removed |-> removed, added |-> added]

\* what a handler leaves: the view, its notifications, a failed g_assert
Done(self, emitted) == [self |-> self, emitted |-> emitted, aborted |-> FALSE]

Abort(self) == [self |-> self, emitted |-> <<>>, aborted |-> TRUE]

SelfInit ==
  [model |-> 0, sorter |-> 0, incremental |-> FALSE,
   sort |-> SortIdle, sort_cb |-> 0, items |-> <<>>]

\* src: the items of the attached model (<<>> when none is attached)
gtk_tim2_sort_model_get_n_items(self, src) ==
  IF self.model = 0 THEN 0 ELSE Len(src)

g_list_model_get_item(src, position) ==
  IF position < Len(src) THEN src[position + 1] ELSE 0

\* 0 is NULL
gtk_tim2_sort_model_get_item(self, src, position) ==
  IF self.model = 0 THEN 0
  ELSE IF self.items = <<>> THEN g_list_model_get_item(src, position)
  ELSE IF position >= Len(self.items) THEN 0
  ELSE self.items[position + 1].item

gtk_tim2_sort_model_is_sorting(self) == self.sort_cb # 0

\* runs: the run lengths up to the terminating 0
gtk_tim2_sort_model_stop_sorting(self) ==
  IF self.sort_cb = 0
    THEN [self |-> self,
          runs |-> IF Len(self.items) = 0 THEN <<>> ELSE <<Len(self.items)>>]
    ELSE [self |-> [self EXCEPT !.sort = gtk_tim_sort_finish(self.sort), !.sort_cb = 0],
          runs |-> gtk_tim_sort_get_runs(self.sort)]

\* the while loop of sort_step.  budget: the step after which the deadline
\* has passed; start_change, end_change: offsets into the items array;
\* s: what gtk_tim_sort_step returned
RECURSIVE SortStepLoop(_, _, _, _, _, _, _, _)
RECURSIVE SortStepLoopBody(_, _, _, _, _, _, _, _, _)
SortStepLoopBody(s, sort, a, c, finish, budget, start_change, end_change, result) ==
  LET sc == IF s.change.len # 0 THEN Min(start_change, s.change.base)
            ELSE start_change
      ec == IF s.change.len # 0 THEN Max(end_change, s.change.base + s.change.len)
            ELSE end_change
  IN  IF ~s.more
        THEN [sort |-> sort, items |-> a, start_change |-> start_change,
              end_change |-> end_change, result |-> result]
      ELSE IF budget <= 1 /\ ~finish
        THEN [sort |-> s.sort, items |-> s.items, start_change |-> sc,
              end_change |-> ec, result |-> TRUE]
      ELSE SortStepLoop(s.sort, s.items, c, finish, budget - 1, sc, ec, TRUE)

SortStepLoop(sort, a, c, finish, budget, start_change, end_change, result) ==
  CHOOSE l \in {SortStepLoopBody(s, sort, a, c, finish, budget,
                                 start_change, end_change, result) :
                  s \in {gtk_tim_sort_step(sort, a, c)}} : TRUE

\* the end of sort_step that reports the range from the start of the array
sort_step_out_from_zero(self, l) ==
  [self |-> [self EXCEPT !.sort = l.sort, !.items = l.items],
   result |-> l.result,
   pos |-> 0,
   n_items |-> IF l.start_change < l.end_change THEN l.end_change ELSE 0]

\* the end of sort_step; l: what the loop left
sort_step_out(self, l) ==
  [self |-> [self EXCEPT !.sort = l.sort, !.items = l.items],
   result |-> l.result,
   pos |-> IF l.start_change < l.end_change THEN l.start_change ELSE 0,
   n_items |-> IF l.start_change < l.end_change
                 THEN l.end_change - l.start_change ELSE 0]

gtk_tim2_sort_model_sort_step(self, finish, budget, c) ==
  CHOOSE st \in {sort_step_out(self, l) :
                   l \in {SortStepLoop(self.sort, self.items, c, finish, budget,
                                       Len(self.items), 0, FALSE)}} : TRUE

\* sort_cb that announces the range of every step, an empty one as well
sort_cb_always_notifies(st) ==
  IF st.result
    THEN Done(st.self, <<Note(st.pos, st.n_items, st.n_items)>>)
    ELSE Done(gtk_tim2_sort_model_stop_sorting(st.self).self, <<>>)

\* sort_cb that stays installed when the engine has nothing left to do
sort_cb_never_removed(st) ==
  Done(st.self, IF st.result /\ st.n_items # 0
                  THEN <<Note(st.pos, st.n_items, st.n_items)>> ELSE <<>>)

\* st: what sort_step returned
sort_cb_stepped(st) ==
  IF st.result
    THEN Done(st.self, IF st.n_items # 0
                         THEN <<Note(st.pos, st.n_items, st.n_items)>> ELSE <<>>)
    ELSE Done(gtk_tim2_sort_model_stop_sorting(st.self).self, <<>>)

gtk_tim2_sort_model_sort_cb(self, budget, c) ==
  CHOOSE r \in {sort_cb_stepped(st) :
                  st \in {gtk_tim2_sort_model_sort_step(self, FALSE, budget, c)}} : TRUE

\* start_sorting that installs the idle callback in either mode
start_sorting_always_idle(self, runs) ==
  IF self.sort_cb # 0
    THEN [self |-> self, started |-> FALSE, aborted |-> TRUE]
    ELSE [self |-> [self EXCEPT
                      !.sort = gtk_tim_sort_set_max_merge_size(
                                 gtk_tim_sort_set_runs(
                                   gtk_tim_sort_init(self.items, self.sorter), runs),
                                 MaxMergeSize),
                      !.sort_cb = 1],
          started |-> TRUE, aborted |-> FALSE]

\* runs = <<>> stands for a NULL runs argument as well: no run is pushed
gtk_tim2_sort_model_start_sorting(self, runs) ==
  IF self.sort_cb # 0
    THEN [self |-> self, started |-> FALSE, aborted |-> TRUE]
    ELSE [self |-> [self EXCEPT
                      !.sort = IF self.incremental
                                 THEN gtk_tim_sort_set_max_merge_size(
                                        gtk_tim_sort_set_runs(
                                          gtk_tim_sort_init(self.items, self.sorter), runs),
                                        MaxMergeSize)
                                 ELSE gtk_tim_sort_set_runs(
                                        gtk_tim_sort_init(self.items, self.sorter), runs),
                      !.sort_cb = IF self.incremental THEN 1 ELSE 0],
          started |-> self.incremental, aborted |-> FALSE]

\* st: what sort_step returned
finish_sorting_stepped(st) ==
  [self |-> gtk_tim2_sort_model_stop_sorting(
              [st.self EXCEPT !.sort = gtk_tim_sort_finish(@)]).self,
   pos |-> st.pos, n_items |-> st.n_items]

\* finish_sorting that steps the engine without the finish flag
finish_sorting_one_slice(self, c) ==
  finish_sorting_stepped(
    gtk_tim2_sort_model_sort_step(
      [self EXCEPT !.sort = gtk_tim_sort_set_max_merge_size(@, 0)], FALSE, 1, c))

gtk_tim2_sort_model_finish_sorting(self, c) ==
  finish_sorting_stepped(
    gtk_tim2_sort_model_sort_step(
      [self EXCEPT !.sort = gtk_tim_sort_set_max_merge_size(@, 0)], TRUE, 0, c))

\* the two for loops of clear_items over the buffer a: the first entry that
\* is not at its source position, and the end of the last one
ClearItemsStart(a) ==
  IF \A i \in 0..(Len(a) - 1) : a[i + 1].position = i THEN Len(a)
  ELSE CHOOSE i \in 0..(Len(a) - 1) :
         a[i + 1].position # i /\ \A j \in 0..(i - 1) : a[j + 1].position = j

ClearItemsEnd(a, start) ==
  IF \A e \in (start + 1)..Len(a) : a[e].position = e - 1 THEN start
  ELSE CHOOSE e \in (start + 1)..Len(a) :
         a[e].position # e - 1 /\ \A f \in (e + 1)..Len(a) : a[f].position = f - 1

\* s0: the view with the engine stopped
clear_items_stopped(s0, start, end) ==
  [self |-> [s0 EXCEPT !.items = <<>>],
   pos |-> IF end - start = 0 THEN 0 ELSE start,
   n_items |-> end - start]

\* clear_items that stops the engine but keeps the array
clear_items_keep_array(self) ==
  [self |-> gtk_tim2_sort_model_stop_sorting(self).self, pos |-> 0, n_items |-> 0]

\* clear_items that reports the whole array as its range
clear_items_full_range(self) ==
  clear_items_stopped(gtk_tim2_sort_model_stop_sorting(self).self, 0, Len(self.items))

\* pos, n_items: the range computed when the caller asks for it
gtk_tim2_sort_model_clear_items(self) ==
  clear_items_stopped(gtk_tim2_sort_model_stop_sorting(self).self,
                      ClearItemsStart(self.items),
                      ClearItemsEnd(self.items, ClearItemsStart(self.items)))

gtk_tim2_sort_model_should_sort(self, cmp) ==
  self.sorter # 0 /\ self.model # 0 /\ gtk_sorter_get_order(cmp) # "NONE"

gtk_tim2_sort_model_create_items(self, src, cmp) ==
  IF ~gtk_tim2_sort_model_should_sort(self, cmp) THEN self
  ELSE [self EXCEPT !.items =
          @ \o [i \in 1..Len(src) |-> SortItem(src[i], i - 1)]]

\* the for loop of update_items over the old buffer a, from index i (0-based)
RECURSIVE UpdateItemsLoop(_, _, _, _, _, _, _, _)
UpdateItemsLoop(a, i, out, start, end, position, removed, added) ==
  IF i >= Len(a) THEN [items |-> out, start |-> start, end |-> end]
  ELSE IF a[i + 1].position >= position + removed
    THEN UpdateItemsLoop(a, i + 1,
           Append(out, SortItem(a[i + 1].item, a[i + 1].position - removed + added)),
           start, end, position, removed, added)
  ELSE IF a[i + 1].position >= position
    THEN UpdateItemsLoop(a, i + 1, out, Min(start, Len(out)),
           Len(a) - i - 1, position, removed, added)
  ELSE UpdateItemsLoop(a, i + 1, Append(out, a[i + 1]), start, end,
           position, removed, added)

\* the end of update_items; l: what the loop left
update_items_out(self, l, removed) ==
  [self |-> [self EXCEPT !.items = l.items],
   runs |-> <<>>,
   start |-> l.start, end |-> l.end,
   aborted |-> Len(l.items) # Len(self.items) - removed]

\* update_items that hands on the runs it was given
update_items_keep_runs(self, runs, position, removed, added) ==
  [update_items_out(self,
                    UpdateItemsLoop(self.items, 0, <<>>, Len(self.items), Len(self.items),
                                    position, removed, added),
                    removed)
     EXCEPT !.runs = runs]

\* update_items that tracks the first dropped entry but not the last
update_items_start_only(self, runs, position, removed, added) ==
  update_items_out(self,
                   [UpdateItemsLoop(self.items, 0, <<>>, Len(self.items), Len(self.items),
                                    position, removed, added)
                      EXCEPT !.end = Len(self.items)],
                   removed)

\* update_items that drops the removed entries but does not shift the
\* positions of the entries behind them
update_items_no_shift(self, runs, position, removed, added) ==
  update_items_out(self,
                   [items |-> SelectSeq(self.items,
                                LAMBDA e : ~(e.position >= position
                                             /\ e.position < position + removed)),
                    start |-> 0, end |-> 0],
                   removed)

gtk_tim2_sort_model_update_items(self, runs, position, removed, added) ==
  update_items_out(self,
                   UpdateItemsLoop(self.items, 0, <<>>, Len(self.items), Len(self.items),
                                   position, removed, added),
                   removed)

\* the notification of items_changed_cb that announces the whole buffer
items_changed_cb_emit_all(self, start, end, removed, added) ==
  Done(self, <<Note(0, Len(self.items) - added + removed, Len(self.items))>>)

\* the g_list_model_items_changed at the end of items_changed_cb
items_changed_cb_emit(self, start, end, removed, added) ==
  Done(self, <<Note(start,
                    Len(self.items) - start - end - added + removed,
                    Len(self.items) - start - end)>>)

\* fin: what finish_sorting returned
items_changed_cb_finished(fin, start, removed, added) ==
  items_changed_cb_emit(fin.self, Min(start, fin.pos),
                        Min(0, Len(fin.self.items) - fin.pos - fin.n_items),
                        removed, added)

\* ss: what start_sorting returned for the buffer with the added items
items_changed_cb_started(ss, start, cmp, removed, added) ==
  IF ss.started
    THEN items_changed_cb_emit(ss.self, start, 0, removed, added)
    ELSE items_changed_cb_finished(gtk_tim2_sort_model_finish_sorting(ss.self, cmp),
                                   start, removed, added)

\* the append of items_changed_cb that numbers the added items from 0
items_changed_cb_append_from_zero(self, src, position, added) ==
  [self EXCEPT !.items = @ \o
     [k \in 1..added |->
        SortItem(g_list_model_get_item(src, position + k - 1), k - 1)]]

\* the items the source added, appended to the buffer
items_changed_cb_append(self, src, position, added) ==
  [self EXCEPT !.items = @ \o
     [k \in 1..added |->
        SortItem(g_list_model_get_item(src, position + k - 1), position + k - 1)]]

\* up: what update_items returned; stopped: the view it was given
items_changed_cb_updated(up, stopped, was_sorting, src, cmp, position, removed, added) ==
  IF up.aborted THEN Abort(stopped)
  ELSE IF added > 0
    THEN items_changed_cb_started(
           gtk_tim2_sort_model_start_sorting(
             items_changed_cb_append(up.self, src, position, added), up.runs),
           up.start, cmp, removed, added)
  ELSE IF was_sorting
    THEN items_changed_cb_emit(gtk_tim2_sort_model_start_sorting(up.self, up.runs).self,
                               up.start, up.end, removed, added)
  ELSE items_changed_cb_emit(up.self, up.start, up.end, removed, added)

\* st: what stop_sorting returned
items_changed_cb_stopped(st, was_sorting, src, cmp, position, removed, added) ==
  items_changed_cb_updated(
    gtk_tim2_sort_model_update_items(st.self, st.runs, position, removed, added),
    st.self, was_sorting, src, cmp, position, removed, added)

\* items_changed_cb that announces a pass-through edit as a change of the
\* whole list
items_changed_cb_forward_all(self, src, cmp, position, removed, added) ==
  IF removed = 0 /\ added = 0 THEN Done(self, <<>>)
  ELSE IF ~gtk_tim2_sort_model_should_sort(self, cmp)
    THEN Done(self, <<Note(0, Len(src) - added + removed, Len(src))>>)
  ELSE items_changed_cb_stopped(gtk_tim2_sort_model_stop_sorting(self),
                                gtk_tim2_sort_model_is_sorting(self),
                                src, cmp, position, removed, added)

\* items_changed_cb without the early return for an empty change
items_changed_cb_no_short_circuit(self, src, cmp, position, removed, added) ==
  IF ~gtk_tim2_sort_model_should_sort(self, cmp)
    THEN Done(self, <<Note(position, removed, added)>>)
  ELSE items_changed_cb_stopped(gtk_tim2_sort_model_stop_sorting(self),
                                gtk_tim2_sort_model_is_sorting(self),
                                src, cmp, position, removed, added)

\* src: the items of the source after the edit; cmp: the attached sorter
gtk_tim2_sort_model_items_changed_cb(self, src, cmp, position, removed, added) ==
  IF removed = 0 /\ added = 0 THEN Done(self, <<>>)
  ELSE IF ~gtk_tim2_sort_model_should_sort(self, cmp)
    THEN Done(self, <<Note(position, removed, added)>>)
  ELSE items_changed_cb_stopped(gtk_tim2_sort_model_stop_sorting(self),
                                gtk_tim2_sort_model_is_sorting(self),
                                src, cmp, position, removed, added)

\* the g_list_model_items_changed at the end of sorter_changed_cb and of
\* set_incremental; r: the range from clear_items or finish_sorting
emit_range(r) ==
  Done(r.self, IF r.n_items > 0 THEN <<Note(r.pos, r.n_items, r.n_items)>> ELSE <<>>)

\* ss: what start_sorting returned
sorter_changed_cb_started(ss, cmp) ==
  IF ss.started THEN Done(ss.self, <<>>)
  ELSE emit_range(gtk_tim2_sort_model_finish_sorting(ss.self, cmp))

\* sorter_changed_cb that hands the runs stop_sorting captured on to
\* start_sorting
sorter_changed_cb_keep_runs(self, src, cmp) ==
  IF gtk_sorter_get_order(cmp) = "NONE"
    THEN emit_range(gtk_tim2_sort_model_clear_items(self))
    ELSE sorter_changed_cb_started(
           gtk_tim2_sort_model_start_sorting(
             gtk_tim2_sort_model_stop_sorting(
               IF self.items = <<>>
                 THEN gtk_tim2_sort_model_create_items(self, src, cmp) ELSE self).self,
             gtk_tim2_sort_model_stop_sorting(
               IF self.items = <<>>
                 THEN gtk_tim2_sort_model_create_items(self, src, cmp) ELSE self).runs),
           cmp)

\* the handler of the sorter's "changed" signal; cmp: the sorter as it is now
gtk_tim2_sort_model_sorter_changed_cb(self, src, cmp) ==
  IF gtk_sorter_get_order(cmp) = "NONE"
    THEN emit_range(gtk_tim2_sort_model_clear_items(self))
    ELSE sorter_changed_cb_started(
           gtk_tim2_sort_model_start_sorting(
             gtk_tim2_sort_model_stop_sorting(
               IF self.items = <<>>
                 THEN gtk_tim2_sort_model_create_items(self, src, cmp) ELSE self).self,
             <<>>),
           cmp)

\* sorter_changed_cb up to its call of stop_sorting: create_items is called
\* for an empty buffer, and fills it, with the idle callback still installed
sorter_changed_cb_populates_running(self, src, cmp) ==
  /\ gtk_sorter_get_order(cmp) # "NONE"
  /\ self.items = <<>>
  /\ gtk_tim2_sort_model_is_sorting(self)
  /\ gtk_tim2_sort_model_create_items(self, src, cmp).items # <<>>

gtk_tim2_sort_model_clear_model(self) ==
  IF self.model = 0 THEN self
  ELSE gtk_tim2_sort_model_clear_items([self EXCEPT !.model = 0]).self

gtk_tim2_sort_model_clear_sorter(self) ==
  IF self.sorter = 0 THEN self ELSE [self EXCEPT !.sorter = 0]

\* the g_list_model_items_changed at the end of set_model
set_model_emit(self, removed, added) ==
  Done(self, IF removed > 0 \/ added > 0 THEN <<Note(0, removed, added)>> ELSE <<>>)

\* ss: what start_sorting returned
set_model_started(ss, removed, added, cmp) ==
  IF ss.aborted THEN Abort(ss.self)
  ELSE IF ss.started THEN set_model_emit(ss.self, removed, added)
  ELSE set_model_emit(gtk_tim2_sort_model_finish_sorting(ss.self, cmp).self,
                      removed, added)

\* old: the items of the model attached so far; src: the items of model
gtk_tim2_sort_model_set_model(self, old, model, src, cmp) ==
  IF self.model = model THEN Done(self, <<>>)
  ELSE IF model # 0
    THEN set_model_started(
           gtk_tim2_sort_model_start_sorting(
             gtk_tim2_sort_model_create_items(
               [gtk_tim2_sort_model_clear_model(self) EXCEPT !.model = model], src, cmp),
             <<>>),
           gtk_tim2_sort_model_get_n_items(self, old), Len(src), cmp)
  ELSE set_model_emit(gtk_tim2_sort_model_clear_model(self),
                      gtk_tim2_sort_model_get_n_items(self, old), 0)

\* cmp: what the new sorter compares by
gtk_tim2_sort_model_set_sorter(self, src, sorter, cmp) ==
  IF sorter # 0
    THEN gtk_tim2_sort_model_sorter_changed_cb(
           [gtk_tim2_sort_model_clear_sorter(self) EXCEPT !.sorter = sorter], src, cmp)
    ELSE Done(gtk_tim2_sort_model_clear_sorter(self),
              IF gtk_tim2_sort_model_get_n_items(self, src) > 1
                THEN <<Note(0, gtk_tim2_sort_model_get_n_items(self, src),
                            gtk_tim2_sort_model_get_n_items(self, src))>>
                ELSE <<>>)

\* the view as dispose leaves it
gtk_tim2_sort_model_dispose(self) ==
  gtk_tim2_sort_model_clear_sorter(gtk_tim2_sort_model_clear_model(self))

\* set_incremental that announces the whole buffer whenever the flag changes
set_incremental_always_notify(self, incremental, c) ==
  IF self.incremental = incremental THEN Done(self, <<>>)
  ELSE Done(gtk_tim2_sort_model_finish_sorting(
              [self EXCEPT !.incremental = incremental], c).self,
            IF Len(self.items) > 0
              THEN <<Note(0, Len(self.items), Len(self.items))>> ELSE <<>>)

\* set_incremental that only stores the flag and removes the idle callback
set_incremental_no_drain(self, incremental, c) ==
  IF self.incremental = incremental THEN Done(self, <<>>)
  ELSE Done(gtk_tim2_sort_model_stop_sorting(
              [self EXCEPT !.incremental = incremental]).self, <<>>)

\* c: what the engine's sorter compares by
gtk_tim2_sort_model_set_incremental(self, incremental, c) ==
  IF self.incremental = incremental THEN Done(self, <<>>)
  ELSE IF ~incremental /\ gtk_tim2_sort_model_is_sorting(self)
    THEN emit_range(gtk_tim2_sort_model_finish_sorting(
                      [self EXCEPT !.incremental = incremental], c))
  ELSE Done([self EXCEPT !.incremental = incremental], <<>>)

\* ---- references ----------------------------------------------------------
\* The references to items the view acquires and releases.  An entry of the
\* array owns the reference g_list_model_get_item returned for it; an item
\* of 0 is a NULL pointer.  SortArray (gdk/gdkarrayimpl.c) calls
\* sort_item_clear on every element it drops: those behind the new size in
\* sort_array_set_size, all of them in sort_array_clear.
sort_item_clear(si) == [si EXCEPT !.item = 0]

\* the reference g_clear_object gives up for the entry si
Unref(si) == IF si.item # 0 THEN <<si.item>> ELSE <<>>

\* the references released when the array drops the elements a
RECURSIVE FreeElements(_)
FreeElements(a) ==
  IF a = <<>> THEN <<>> ELSE Unref(Head(a)) \o FreeElements(Tail(a))

\* the for loop of update_items on the array itself, from index i (0-based):
\* entries are moved down to index `valid` by assignment, which leaves the
\* copied-from element as it was; released: the references given up so far
RECURSIVE UpdateItemsSlots(_, _, _, _, _, _, _)
UpdateItemsSlots(a, i, valid, released, position, removed, added) ==
  IF i >= Len(a) THEN [slots |-> a, valid |-> valid, released |-> released]
  ELSE IF a[i + 1].position >= position + removed
    THEN UpdateItemsSlots(
           [a EXCEPT ![i + 1] = SortItem(a[i + 1].item,
                                         a[i + 1].position - removed + added),
                     ![valid + 1] = SortItem(a[i + 1].item,
                                             a[i + 1].position - removed + added)],
           i + 1, valid + 1, released, position, removed, added)
  ELSE IF a[i + 1].position >= position
    THEN UpdateItemsSlots([a EXCEPT ![i + 1] = sort_item_clear(@)],
                          i + 1, valid, released \o Unref(a[i + 1]),
                          position, removed, added)
  ELSE UpdateItemsSlots([a EXCEPT ![valid + 1] = a[i + 1]],
                        i + 1, valid + 1, released, position, removed, added)

\* the memset of update_items: `removed` elements from index valid
update_items_memset(l, removed) ==
  [i \in 1..Len(l.slots) |->
     IF l.valid < i /\ i <= l.valid + removed THEN SortItem(0, 0) ELSE l.slots[i]]

\* the end of update_items; l: what the loop left
update_items_shrunk(l, removed) ==
  [items |-> SubSeq(l.slots, 1, l.valid),
   released |-> l.released
                  \o FreeElements(SubSeq(update_items_memset(l, removed),
                                         l.valid + 1, Len(l.slots))),
   aborted |-> l.valid # Len(l.slots) - removed]

\* the array update_items leaves and the references it has released
update_items_refs(self, position, removed, added) ==
  update_items_shrunk(
    UpdateItemsSlots(self.items, 0, 0, <<>>, position, removed, added), removed)

\* the references create_items acquires: one for each item of the source
create_items_refs(self, src, cmp) ==
  IF ~gtk_tim2_sort_model_should_sort(self, cmp) THEN <<>> ELSE src

\* the references clear_items releases
clear_items_refs(self) == FreeElements(self.items)

\* the references clear_model releases
clear_model_refs(self) ==
  IF self.model = 0 THEN <<>> ELSE clear_items_refs(self)

\* the references items_changed_cb acquires and releases
items_changed_cb_refs(self, src, cmp, position, removed, added) ==
  IF (removed = 0 /\ added = 0) \/ ~gtk_tim2_sort_model_should_sort(self, cmp)
    THEN [acquired |-> <<>>, released |-> <<>>]
    ELSE [acquired |-> [k \in 1..added |-> g_list_model_get_item(src, position + k - 1)],
          released |-> update_items_refs(gtk_tim2_sort_model_stop_sorting(self).self,
                                         position, removed, added).released]

\* the references sorter_changed_cb acquires and releases
sorter_changed_cb_refs(self, src, cmp) ==
  IF gtk_sorter_get_order(cmp) = "NONE"
    THEN [acquired |-> <<>>, released |-> clear_items_refs(self)]
    ELSE [acquired |-> IF self.items = <<>> THEN create_items_refs(self, src, cmp)
                       ELSE <<>>,
          released |-> <<>>]

\* the references set_model acquires and releases; src: the items of model
set_model_refs(self, model, src, cmp) ==
  IF self.model = model THEN [acquired |-> <<>>, released |-> <<>>]
  ELSE [acquired |-> IF model # 0
                       THEN create_items_refs(
                              [gtk_tim2_sort_model_clear_model(self) EXCEPT !.model = model],
                              src, cmp)
                       ELSE <<>>,
        released |-> clear_model_refs(self)]

\* ---- the state machine --------------------------------------------------
VARIABLES
  self,      \* struct _GtkTim2SortModel
  src,       \* the items of the attached model, <<>> when self.model is NULL
  cmp,       \* what the attached sorter compares by, "none" when NULL
  emitted,   \* the items-changed notifications of the last call, in order
  op,        \* the last call
  aborted,   \* a g_assert has failed
  drift,     \* source edits since the buffer went out of step with the source
  twin,      \* a second view, synchronous, that is sent the same calls (SpecTwin)
  pop        \* the items in the source since the buffer was last populated (SpecTwin)

vars == <<self, src, cmp, emitted, op, aborted, drift, twin, pop>>

\* the buffer is empty or holds exactly the items of the source, each with
\* its index in the source
InStep(s, source) ==
  \/ s.items = <<>>
  \/ /\ s.model # 0
     /\ Len(s.items) = Len(source)
     /\ \A i \in 1..Len(s.items) :
          /\ s.items[i].position < Len(source)
          /\ source[s.items[i].position + 1] = s.items[i].item
     /\ \A i, j \in 1..Len(s.items) :
          i # j => s.items[i].position # s.items[j].position

Init ==
  /\ self = SelfInit
  /\ src = <<>>
  /\ cmp = "none"
  /\ emitted = <<>>
  /\ op = "new"
  /\ aborted = FALSE
  /\ drift = 0
  /\ twin = SelfInit
  /\ pop = {}

\* GListModel and GtkSorter objects are 1..NumObjects, NULL is 0.  The view
\* only tests them for identity, so the object it holds is always called 1
\* and an object it does not hold has another name: once the view has let
\* go of its old object for a new one, the new one takes the name 1.
Other == CHOOSE o \in 1..NumObjects : o # 1

Named(s) ==
  [s EXCEPT !.model = IF @ = 0 THEN 0 ELSE 1,
            !.sorter = IF @ = 0 THEN 0 ELSE 1,
            !.sort = [@ EXCEPT !.data =
                        IF @ = 0 THEN 0
                        ELSE IF s.sorter = 0 /\ @ = 1 THEN 1
                        ELSE IF @ = s.sorter THEN 1 ELSE Other]]

\* what the engine's compare function can answer by: the attached sorter
\* when the engine holds it, anything when the view has dropped its
\* reference to the engine's sorter
EngineCmps ==
  IF self.sort.data = self.sorter /\ self.sorter # 0 THEN {cmp}
  ELSE IF self.items = <<>> THEN {"none"}
  ELSE Cmps

\* the program runs, and the model follows it
Live == ~aborted /\ drift < MaxDrift

Apply(r, name) ==
  /\ self' = Named(r.self)
  /\ emitted' = r.emitted
  /\ aborted' = r.aborted
  /\ op' = name
  /\ drift' = IF InStep(r.self, src') THEN 0
              ELSE IF name = "items_changed" THEN drift + 1 ELSE drift

\* set_model (NULL), set_model (the attached model), or set_model (another
\* model, whose items are `new`)
SetModel(model, new) ==
  /\ Live
  /\ src' = IF model = self.model THEN src ELSE new
  /\ UNCHANGED cmp
  /\ Apply(gtk_tim2_sort_model_set_model(self, src, model, src', cmp), "set_model")

\* set_sorter (NULL), or set_sorter of the attached or of another sorter,
\* which compares by c
SetSorter(sorter, c) ==
  /\ Live
  /\ cmp' = c
  /\ UNCHANGED src
  /\ Apply(gtk_tim2_sort_model_set_sorter(self, src, sorter, c), "set_sorter")

\* the attached sorter now compares by c and emits "changed"
SorterChanged(c) ==
  /\ Live
  /\ self.sorter # 0
  /\ cmp' = c
  /\ UNCHANGED src
  /\ Apply(gtk_tim2_sort_model_sorter_changed_cb(self, src, c), "sorter_changed")

\* the source replaces `removed` items at `position` by the items `new` and
\* emits "items-changed"
ItemsChanged(position, removed, new) ==
  /\ Live
  /\ self.model # 0
  /\ src' = Splice(src, position, removed, new)
  /\ UNCHANGED cmp
  /\ Apply(gtk_tim2_sort_model_items_changed_cb(self, src', cmp, position, removed, Len(new)),
           "items_changed")
  /\ Len(self'.items) <= MaxLen

SetIncremental(incremental, c) ==
  /\ Live
  /\ UNCHANGED <<src, cmp>>
  /\ Apply(gtk_tim2_sort_model_set_incremental(self, incremental, c), "set_incremental")

\* the idle callback
Tick(budget, c) ==
  /\ Live
  /\ self.sort_cb # 0
  /\ UNCHANGED <<src, cmp>>
  /\ Apply(gtk_tim2_sort_model_sort_cb(self, budget, c), "sort_cb")

\* the items a source can put in place of `removed` items at `position`
NewItems(position, removed) ==
  LET rest == Range(Slice(src, 0, position))
                \cup Range(Slice(src, position + removed, Len(src) - position - removed))
  IN  DistinctSeqs(Elems \ rest, MaxLen - (Len(src) - removed))

\* one view
Single == UNCHANGED <<twin, pop>>

Next ==
  \/ Single /\ SetModel(0, <<>>)
  \/ Single /\ self.model # 0 /\ SetModel(self.model, src)
  \/ Single /\ \E new \in Sources : SetModel(IF self.model = 0 THEN 1 ELSE Other, new)
  \/ Single /\ SetSorter(0, "none")
  \/ Single /\ self.sorter # 0 /\ SetSorter(self.sorter, cmp)
  \/ Single /\ \E c \in Cmps : SetSorter(IF self.sorter = 0 THEN 1 ELSE Other, c)
  \/ Single /\ \E c \in Cmps : SorterChanged(c)
  \/ Single /\ \E position \in 0..Len(src) :
                 \E removed \in 0..(Len(src) - position) :
                   \E new \in NewItems(position, removed) :
                     ItemsChanged(position, removed, new)
  \/ Single /\ \E incremental \in BOOLEAN, c \in EngineCmps :
                 SetIncremental(incremental, c)
  \/ Single /\ \E budget \in 1..MaxBudget, c \in EngineCmps : Tick(budget, c)

Spec == Init /\ [][Next]_vars

\* ---- two views ---------------------------------------------------------
\* An incremental view and a synchronous one, attached to the same source
\* and sorter and sent the same calls; only the incremental one has idle
\* callbacks.  The two are followed while the buffer is in step with the
\* source.
Populated(s, source, was) ==
  IF s.items = <<>> THEN {} ELSE IF was = <<>> THEN Range(source) ELSE pop

TwinSetModel(model, new) ==
  /\ SetModel(model, new)
  /\ twin' = Named(gtk_tim2_sort_model_set_model(twin, src, model, src', cmp).self)
  /\ pop' = IF model = self.model THEN pop ELSE Populated(self', src', <<>>)

TwinSetSorter(sorter, c) ==
  /\ SetSorter(sorter, c)
  /\ twin' = Named(gtk_tim2_sort_model_set_sorter(twin, src, sorter, c).self)
  /\ pop' = Populated(self', src, self.items)

TwinSorterChanged(c) ==
  /\ SorterChanged(c)
  /\ twin' = Named(gtk_tim2_sort_model_sorter_changed_cb(twin, src, c).self)
  /\ pop' = Populated(self', src, self.items)

TwinItemsChanged(position, removed, new) ==
  /\ ItemsChanged(position, removed, new)
  /\ twin' = Named(gtk_tim2_sort_model_items_changed_cb(
                     twin, src', cmp, position, removed, Len(new)).self)
  /\ pop' = pop \ Range(Slice(src, position, removed))
  /\ drift' = 0

TwinTick(budget, c) ==
  /\ Tick(budget, c)
  /\ UNCHANGED <<twin, pop>>

InitTwin ==
  /\ self = [SelfInit EXCEPT !.incremental = TRUE]
  /\ src = <<>>
  /\ cmp = "none"
  /\ emitted = <<>>
  /\ op = "set_incremental"
  /\ aborted = FALSE
  /\ drift = 0
  /\ twin = SelfInit
  /\ pop = {}

\* the calls that attach a source or a sorter, none that detaches one; the
\* source adds or removes one item at a time
NextTwin ==
  \/ \E new \in Sources : TwinSetModel(IF self.model = 0 THEN 1 ELSE Other, new)
  \/ \E c \in Cmps : TwinSetSorter(IF self.sorter = 0 THEN 1 ELSE Other, c)
  \/ \E c \in Cmps : TwinSorterChanged(c)
  \/ \E position \in 0..Len(src) :
       \E removed \in 0..Min(1, Len(src) - position) :
         \E new \in NewItems(position, removed) :
           Len(new) + removed = 1 /\ TwinItemsChanged(position, removed, new)
  \/ \E budget \in 1..MaxBudget, c \in EngineCmps : TwinTick(budget, c)

SpecTwin == InitTwin /\ [][NextTwin]_vars

\* ---- a stale buffer ------------------------------------------------------
\* A synchronous view whose source changes by one item at a time, followed
\* for MaxStale source edits after its buffer has gone out of step with the
\* source, until an assertion fails or the buffer outgrows MaxLen.
StaleLive == ~aborted /\ drift < MaxStale

StaleSetModel(new) ==
  /\ StaleLive
  /\ self.model = 0
  /\ src' = new
  /\ UNCHANGED cmp
  /\ Apply(gtk_tim2_sort_model_set_model(self, src, 1, new, cmp), "set_model")
  /\ Single

StaleSetSorter(sorter, c) ==
  /\ StaleLive
  /\ cmp' = c
  /\ UNCHANGED src
  /\ Apply(gtk_tim2_sort_model_set_sorter(self, src, sorter, c), "set_sorter")
  /\ Single

StaleItemsChanged(position, removed, new) ==
  /\ StaleLive
  /\ self.model # 0
  /\ Len(new) + removed = 1
  /\ src' = Splice(src, position, removed, new)
  /\ UNCHANGED cmp
  /\ Apply(gtk_tim2_sort_model_items_changed_cb(self, src', cmp, position, removed, Len(new)),
           "items_changed")
  /\ Len(self'.items) <= MaxLen
  /\ Single

NextStale ==
  \/ \E new \in Sources : StaleSetModel(new)
  \/ StaleSetSorter(0, "none")
  \/ \E c \in Cmps : StaleSetSorter(IF self.sorter = 0 THEN 1 ELSE Other, c)
  \/ \E position \in 0..Len(src) :
       \E removed \in 0..Min(1, Len(src) - position) :
         \E new \in NewItems(position, removed) :
           StaleItemsChanged(position, removed, new)

SpecStale == Init /\ [][NextStale]_vars

\* ---- idle callbacks ------------------------------------------------------
\* The view with the main loop running its idle callback: g_idle_add
\* (start_sorting) has the callback called again and again while it is
\* installed, whatever else happens.  The source changes by one item at a
\* time.
IdleTick(budget, c) ==
  /\ ~aborted
  /\ self.sort_cb # 0
  /\ UNCHANGED <<src, cmp>>
  /\ \E r \in {gtk_tim2_sort_model_sort_cb(self, budget, c)} : Apply(r, "sort_cb")
  /\ Single

IdleTicks == \E budget \in 1..MaxBudget, c \in EngineCmps : IdleTick(budget, c)

NextIdle ==
  \/ Single /\ SetModel(0, <<>>)
  \/ Single /\ \E new \in Sources : SetModel(IF self.model = 0 THEN 1 ELSE Other, new)
  \/ Single /\ SetSorter(0, "none")
  \/ Single /\ \E c \in Cmps : SetSorter(IF self.sorter = 0 THEN 1 ELSE Other, c)
  \/ Single /\ \E c \in Cmps : SorterChanged(c)
  \/ Single /\ \E position \in 0..Len(src) :
                 \E removed \in 0..Min(1, Len(src) - position) :
                   \E new \in NewItems(position, removed) :
                     Len(new) + removed = 1 /\ ItemsChanged(position, removed, new)
  \/ Single /\ \E incremental \in BOOLEAN, c \in EngineCmps :
                 SetIncremental(incremental, c)
  \/ IdleTicks

SpecIdle == Init /\ [][NextIdle]_vars /\ WF_vars(IdleTicks)

\* ---- properties ---------------------------------------------------------
ViewItems(s) == [i \in 1..Len(s.items) |-> s.items[i].item]

\* no adjacent pair of the buffer compares greater
Sorted(s, c) ==
  \A i \in 1..(Len(s.items) - 1) :
    sort_func(s.items[i], s.items[i + 1], c) <= 0

Drained == ~aborted /\ self.sort_cb = 0 /\ gtk_tim2_sort_model_should_sort(self, cmp)

\* C1 (P1 sortedness): whenever no engine run is pending while a source and
\* a sorter with an order are attached, no adjacent pair of buffer entries
\* compares greater under that sorter.
Thm_C1_Sortedness == Drained => Sorted(self, cmp)

\* a run that took idle callbacks has ended and has reordered three items
Wit_C1_Sortedness ==
  /\ Drained
  /\ op = "sort_cb"
  /\ Len(self.items) = 3
  /\ ViewItems(self) # src

\* C2 (P3 conservation): a non-empty buffer is as long as the source, and
\* length() reports the source length, 0 without a source.
Cex_C2_Conservation ==
  /\ self.items # <<>> => Len(self.items) = Len(src)
  /\ gtk_tim2_sort_model_get_n_items(self, src) = (IF self.model = 0 THEN 0 ELSE Len(src))

\* C3 (I1 position consistency): in a non-empty buffer the positions are a
\* permutation of 0..n-1, n the source length, and each entry holds the
\* source item at its position.
Cex_C3_Positions ==
  self.items # <<>> =>
    /\ {self.items[i].position : i \in 1..Len(self.items)} = 0..(Len(src) - 1)
    /\ Len(self.items) = Len(src)
    /\ \A i \in 1..Len(self.items) :
         g_list_model_get_item(src, self.items[i].position) = self.items[i].item

\* C4: after set_sorter (NULL) the buffer is empty and get(i) is the source's
\* item i, for every i.
Cex_C4_SorterRemoved ==
  (op = "set_sorter" /\ self.sorter = 0) =>
    /\ self.items = <<>>
    /\ \A i \in 0..MaxLen :
         gtk_tim2_sort_model_get_item(self, src, i) = g_list_model_get_item(src, i)

\* C5 (P6 toggle safety): a call of set_incremental (FALSE) made while an
\* engine run is pending returns with no run pending and the buffer sorted
\* under the attached sorter.
Thm_C5_ToggleSafety ==
  [][(self.sort_cb # 0 /\ self.incremental /\ ~self'.incremental)
       => (self'.sort_cb = 0 /\ Sorted(self', cmp'))]_vars

\* the toggle has drained a run that still had three items to reorder
Wit_C5_ToggleSafety ==
  /\ op = "set_incremental"
  /\ ~self.incremental
  /\ self.sorter # 0
  /\ Len(self.items) = 3
  /\ emitted # <<>>

RECURSIVE CommonPrefix(_, _)
CommonPrefix(a, b) ==
  IF a = <<>> \/ b = <<>> \/ Head(a) # Head(b) THEN 0
  ELSE 1 + CommonPrefix(Tail(a), Tail(b))

\* C6 (P4 minimal notification): the notification of a source edit handled
\* in synchronous sorted mode starts no earlier than the first buffer
\* position whose item differs and ends no later than the last one; so an
\* append whose place is the tail is not announced as a change of the whole
\* buffer.
Cex_C6_MinimalNotification ==
  [][(/\ op' = "items_changed"
      /\ ~aborted'
      /\ ~self.incremental
      /\ gtk_tim2_sort_model_should_sort(self, cmp)
      /\ emitted' # <<>>)
       => LET old == ViewItems(self)
              new == ViewItems(self')
              n == emitted'[1]
              pre == CommonPrefix(old, new)
              suf == Min(CommonPrefix(Reverse(old), Reverse(new)),
                         Min(Len(old), Len(new)) - pre)
          IN  /\ n.position >= pre
              /\ Len(new) - n.position - n.added >= suf]_vars

\* C9: while the attached sorter reports the order NONE the buffer is empty
\* and the view is the source: the same length and the same item at every
\* index.
Thm_C9_OrderNone ==
  (self.sorter # 0 /\ gtk_sorter_get_order(cmp) = "NONE") =>
    /\ self.items = <<>>
    /\ gtk_tim2_sort_model_get_n_items(self, src) = Len(src)
    /\ \A i \in 0..MaxLen :
         gtk_tim2_sort_model_get_item(self, src, i) = g_list_model_get_item(src, i)

\* the sorter has signalled NONE to a view that held three reordered items
Wit_C9_OrderNone ==
  /\ op = "sorter_changed"
  /\ self.sorter # 0
  /\ gtk_sorter_get_order(cmp) = "NONE"
  /\ Len(src) = 3
  /\ emitted # <<>>

\* C10: get returns NULL for every index without a source and for every
\* index from the buffer size on in sorted mode, and an item for every index
\* below the source length in sorted mode.
Cex_C10_GetItem ==
  \A i \in 0..(MaxLen + 1) :
    /\ self.model = 0 => gtk_tim2_sort_model_get_item(self, src, i) = 0
    /\ (self.items # <<>> /\ i >= Len(self.items))
         => gtk_tim2_sort_model_get_item(self, src, i) = 0
    /\ (self.items # <<>> /\ i < Len(src))
         => gtk_tim2_sort_model_get_item(self, src, i) # 0

\* C7 (incremental/synchronous equivalence): whenever the incremental view
\* has no engine run pending, its buffer is the buffer of the synchronous
\* view that was sent the same calls.
Cex_C7_SameOrder ==
  (~aborted /\ self.sort_cb = 0) => self.items = twin.items

\* C8 (P2 stability): once the view is drained, two buffer entries that
\* compare equal and have both been in the source since the buffer was last
\* populated stand in the order they have in the source.
Cex_C8_Stability ==
  Drained =>
    \A i, j \in 1..Len(self.items) :
      (/\ i < j
       /\ sort_func(self.items[i], self.items[j], cmp) = 0
       /\ self.items[i].item \in pop
       /\ self.items[j].item \in pop)
        => self.items[i].position < self.items[j].position

\* C11 (P5 idempotence of draining): a call of set_incremental made while no
\* engine run is pending, so on a view that is already drained, emits no
\* notification, leaves the buffer as it is and starts no run.
Thm_C11_DrainIdempotent ==
  [][(op' = "set_incremental" /\ self.sort_cb = 0)
       => (emitted' = <<>> /\ self'.items = self.items /\ self'.sort_cb = 0)]_vars

\* a drained view holding three reordered items has been switched to
\* synchronous, and nothing was announced
Wit_C11_DrainIdempotent ==
  /\ op = "set_incremental"
  /\ ~self.incremental
  /\ Drained
  /\ emitted = <<>>
  /\ Len(self.items) = 3
  /\ ViewItems(self) # src

\* C12: in every state, items-changed with removed = 0 and added = 0, at any
\* position, leaves the whole view (buffer, positions, sort_cb, engine) as it
\* is, emits nothing and fails no assertion.
Thm_C12_EmptyChange ==
  \A position \in 0..Len(src) :
    gtk_tim2_sort_model_items_changed_cb(self, src, cmp, position, 0, 0)
      = Done(self, <<>>)

\* an empty change has reached a view with an engine run pending over a
\* populated buffer; only an empty change is handled without a notification
Wit_C12_EmptyChange ==
  /\ op = "items_changed"
  /\ ~aborted
  /\ emitted = <<>>
  /\ self.sort_cb # 0
  /\ gtk_tim2_sort_model_should_sort(self, cmp)
  /\ Len(self.items) = 3

\* C13: while no sorter is attached, or the attached sorter reports the
\* order NONE, a source edit (position, removed, added) is announced by
\* exactly one notification with the same three values, and the view
\* (buffer, sort_cb, engine) is left as it is.
Thm_C13_ForwardVerbatim ==
  (self.model # 0 /\ ~gtk_tim2_sort_model_should_sort(self, cmp)) =>
    \A position, removed, added \in 0..MaxLen :
      (removed + added > 0) =>
        gtk_tim2_sort_model_items_changed_cb(self, src, cmp, position, removed, added)
          = Done(self, <<Note(position, removed, added)>>)

\* a source has replaced items under a sorter that reports the order NONE,
\* and the edit was announced as it came
Wit_C13_ForwardVerbatim ==
  /\ op = "items_changed"
  /\ self.sorter # 0
  /\ gtk_sorter_get_order(cmp) = "NONE"
  /\ Len(emitted) = 1
  /\ emitted[1].position > 0
  /\ emitted[1].removed > 0
  /\ emitted[1].added > 0

\* C14: start_sorting is never entered with an engine run pending: its
\* g_assert (sort_cb == 0) fails in no call.  Of the handlers only set_model
\* can fail it; a failed assertion of items_changed_cb is update_items'.
Cex_C14_NoReentry == ~(aborted /\ op = "set_model")

\* C15 (I3 engine/edit ordering): no handler edits the structure of the
\* buffer while an engine run is pending.  clear_items and items_changed_cb
\* stop the engine first; what is left to state is that sorter_changed_cb,
\* run by set_sorter for a new sorter and by the sorter's signal, does not
\* populate the buffer before it has stopped the engine.
Cex_C15_StopBeforeEdit ==
  [][(op' \in {"set_sorter", "sorter_changed"} /\ self'.sorter # 0)
       => ~sorter_changed_cb_populates_running(
             [self EXCEPT !.sorter = self'.sorter], src, cmp')]_vars

\* C16: for every source edit that is valid for the source, after any calls,
\* the g_assert (valid == n_items - removed) of update_items holds.  Of the
\* assertions only this one can fail in items_changed_cb.
Cex_C16_UpdateAssert == ~(aborted /\ op = "items_changed")

\* the entries of the buffer a that an edit (position, removed, added) keeps,
\* in their buffer order, those behind the removed range moved by
\* added - removed
Translated(a, position, removed, added) ==
  LET kept == SelectSeq(a, LAMBDA e : e.position < position
                                       \/ e.position >= position + removed)
  IN  [i \in 1..Len(kept) |->
         IF kept[i].position < position THEN kept[i]
         ELSE SortItem(kept[i].item, kept[i].position - removed + added)]

\* C17 (translator shift and compaction): for every edit (position, removed,
\* added) update_items turns a non-empty buffer into the entries outside
\* [position, position + removed), in their previous buffer order, with the
\* positions below `position` unchanged and the others moved by
\* added - removed.
Thm_C17_Translate ==
  self.items # <<>> =>
    \A position, removed, added \in 0..MaxLen :
      gtk_tim2_sort_model_update_items(self, <<>>, position, removed, added).self.items
        = Translated(self.items, position, removed, added)

\* a synchronous sorted view has handled a source edit that took one of
\* three items away and left two, each at its new source position
Wit_C17_Translate ==
  /\ op = "items_changed"
  /\ Drained
  /\ ~self.incremental
  /\ Len(emitted) = 1
  /\ emitted[1].removed = emitted[1].added + 1
  /\ Len(self.items) = 2
  /\ InStep(self, src)
  /\ ViewItems(self) # src

\* C18 (translator range tracking): update_items reports start, the first
\* modified index, and end, the number of unmodified entries at the tail;
\* every index of the old buffer whose entry the edit drops, or whose
\* position the edit changes, lies in [start, n - end), n the old size.
Cex_C18_RangeTracking ==
  self.items # <<>> =>
    \A position \in 0..Len(src) :
      \A removed \in 0..(Len(src) - position) :
        \A added \in 0..MaxLen :
          LET up == gtk_tim2_sort_model_update_items(self, <<>>, position, removed, added)
          IN  \A i \in 0..(Len(self.items) - 1) :
                (\/ /\ self.items[i + 1].position >= position
                    /\ self.items[i + 1].position < position + removed
                 \/ /\ self.items[i + 1].position >= position + removed
                    /\ added # removed)
                  => (up.start <= i /\ i < Len(self.items) - up.end)

\* C18, amended: every index of the old buffer whose entry the edit drops
\* lies in [start, n - end); entries whose position the edit only shifts are
\* not tracked.
Thm_C18_DroppedRange ==
  self.items # <<>> =>
    \A position \in 0..Len(src) :
      \A removed \in 0..(Len(src) - position) :
        \A added \in 0..MaxLen :
          LET up == gtk_tim2_sort_model_update_items(self, <<>>, position, removed, added)
          IN  \A i \in 0..(Len(self.items) - 1) :
                (/\ self.items[i + 1].position >= position
                 /\ self.items[i + 1].position < position + removed)
                  => (up.start <= i /\ i < Len(self.items) - up.end)

\* the source has removed the item that stood in the middle of a buffer of
\* three, and the range announced is that one index
Wit_C18_DroppedRange ==
  /\ op = "items_changed"
  /\ gtk_tim2_sort_model_should_sort(self, cmp)
  /\ emitted = <<Note(1, 1, 0)>>
  /\ Len(self.items) = 2
  /\ InStep(self, src)

\* C19: a source edit that adds items, handled in sorted mode, makes the
\* buffer the surviving entries followed by the entries (source item i, i)
\* for i = position .. position + added - 1 in source order.  In incremental
\* mode that is the buffer when the handler returns, a run is pending, and
\* the one notification reaches to the end of the buffer and starts at or
\* before the first added entry; in synchronous mode the buffer holds the
\* same entries, sorted.
Thm_C19_AppendAdded ==
  (self.model # 0 /\ gtk_tim2_sort_model_should_sort(self, cmp)) =>
    \A position \in 0..Len(src) :
      \A removed \in 0..(Len(src) - position) :
        \A new \in NewItems(position, removed) :
          LET added == Len(new)
              r == gtk_tim2_sort_model_items_changed_cb(
                     self, Splice(src, position, removed, new), cmp,
                     position, removed, added)
              want == Translated(self.items, position, removed, added)
                        \o [k \in 1..added |-> SortItem(new[k], position + k - 1)]
          IN  (added > 0 /\ ~r.aborted) =>
                IF self.incremental
                  THEN /\ r.self.items = want
                       /\ r.self.sort_cb # 0
                       /\ Len(r.emitted) = 1
                       /\ r.emitted[1].position + r.emitted[1].added = Len(want)
                       /\ r.emitted[1].position <= Len(want) - added
                  ELSE /\ Len(r.self.items) = Len(want)
                       /\ Range(r.self.items) = Range(want)

\* an incremental view has taken in an added item that stands, out of order,
\* at the tail of three entries
Wit_C19_AppendAdded ==
  /\ op = "items_changed"
  /\ self.incremental
  /\ self.sort_cb # 0
  /\ gtk_tim2_sort_model_should_sort(self, cmp)
  /\ Len(emitted) = 1
  /\ emitted[1].added > emitted[1].removed
  /\ Len(self.items) = 3
  /\ InStep(self, src)
  /\ sort_func(self.items[2], self.items[3], cmp) > 0

\* the indices (0-based) of the buffer entries of s whose position lies in
\* [position, position + removed)
RemovedAt(s, position, removed) ==
  {i \in 0..(Len(s.items) - 1) :
     /\ s.items[i + 1].position >= position
     /\ s.items[i + 1].position < position + removed}

\* C20 (pure-removal notification): for a source edit that removes k > 0
\* items and adds none, handled in sorted mode with the removed items at the
\* buffer indices i1 < ... < ik, the view emits the one notification
\* (i1, ik - i1 + 1, ik - i1 + 1 - k).
Thm_C20_PureRemoval ==
  (self.model # 0 /\ gtk_tim2_sort_model_should_sort(self, cmp)) =>
    \A position \in 0..Len(src) :
      \A removed \in 1..(Len(src) - position) :
        LET r == gtk_tim2_sort_model_items_changed_cb(
                   self, Splice(src, position, removed, <<>>), cmp,
                   position, removed, 0)
            at == RemovedAt(self, position, removed)
            i1 == CHOOSE i \in at : \A j \in at : i <= j
            ik == CHOOSE i \in at : \A j \in at : i >= j
        IN  Cardinality(at) = removed =>
              /\ ~r.aborted
              /\ r.emitted = <<Note(i1, ik - i1 + 1, ik - i1 + 1 - removed)>>

\* the source has removed two items that stood first and last in a buffer
\* of three; the notification spans the three positions and leaves one
Wit_C20_PureRemoval ==
  /\ op = "items_changed"
  /\ gtk_tim2_sort_model_should_sort(self, cmp)
  /\ emitted = <<Note(0, 3, 1)>>
  /\ Len(self.items) = 1
  /\ InStep(self, src)

\* the view before a call and after it agree outside the range of the
\* notification n: below n.position index by index, and behind the removed
\* range moved by added - removed
SoundNote(n, before, source, after, source2) ==
  /\ \A i \in 0..(n.position - 1) :
       gtk_tim2_sort_model_get_item(before, source, i)
         = gtk_tim2_sort_model_get_item(after, source2, i)
  /\ \A i \in (n.position + n.removed)
                ..(gtk_tim2_sort_model_get_n_items(before, source) - 1) :
       gtk_tim2_sort_model_get_item(before, source, i)
         = gtk_tim2_sort_model_get_item(after, source2, i - n.removed + n.added)

\* C21 (notification soundness): for every notification (p, r, a) of a call,
\* get(i) is the same item before and after the call for every i < p, and
\* the old get(i) is the new get(i - r + a) for every i >= p + r of the old
\* view.
Cex_C21_Soundness ==
  [][~aborted' =>
       \A k \in DOMAIN emitted' : SoundNote(emitted'[k], self, src, self', src')]_vars

\* C22 (notification length accounting): every notification (p, r, a) of a
\* call has p + r <= L_before and L_after = L_before - r + a, L_before and
\* L_after being length() before and after the call, and a call that emits
\* nothing leaves length() as it is; so an observer that follows the length
\* through the notifications agrees with length().
Cex_C22_LengthAccounting ==
  [][~aborted' =>
       /\ \A k \in DOMAIN emitted' :
            /\ emitted'[k].position + emitted'[k].removed
                 <= gtk_tim2_sort_model_get_n_items(self, src)
            /\ gtk_tim2_sort_model_get_n_items(self', src')
                 = gtk_tim2_sort_model_get_n_items(self, src)
                     - emitted'[k].removed + emitted'[k].added
       /\ emitted' = <<>> =>
            gtk_tim2_sort_model_get_n_items(self', src')
              = gtk_tim2_sort_model_get_n_items(self, src)]_vars

\* the last call was neither a source edit nor a change of the sorter nor
\* set_model: it was an idle callback or set_incremental
Quiet == op \in {"sort_cb", "set_incremental"}

\* an idle callback that finds the engine with work left performs at least
\* one engine step and stays installed, whatever the deadline (budget 0: it
\* has passed on entry); one that finds the engine done ends the run
TickSteps ==
  (~aborted /\ self.sort_cb # 0) =>
    \A budget \in 0..MaxBudget, c \in EngineCmps :
      IF gtk_tim_sort_step(self.sort, self.items, c).more
        THEN /\ gtk_tim2_sort_model_sort_cb(self, budget, c).self.sort # self.sort
             /\ gtk_tim2_sort_model_sort_cb(self, budget, c).self.sort_cb # 0
        ELSE gtk_tim2_sort_model_sort_cb(self, budget, c).self.sort_cb = 0

\* C23 (incremental completion): if from some point on no source edit,
\* change of the sorter or set_model leaves a run pending (the last call is
\* an idle callback or set_incremental whenever one is), and the idle
\* callback is run for as long as it is installed, then from some point on
\* no engine run is pending and the buffer is sorted under the attached
\* sorter; and every idle callback performs at least one engine step before
\* it yields.
Thm_C23_Completion ==
  /\ <>[](Quiet \/ self.sort_cb = 0)
       => <>[](aborted \/ (self.sort_cb = 0
                            /\ (gtk_tim2_sort_model_should_sort(self, cmp)
                                  => Sorted(self, cmp))))
  /\ []TickSteps

\* idle callbacks have ended a run of an incremental view that had three
\* items to reorder
Wit_C23_Completion ==
  /\ op = "sort_cb"
  /\ self.incremental
  /\ self.sort_cb = 0
  /\ gtk_tim2_sort_model_should_sort(self, cmp)
  /\ Len(self.items) = 3
  /\ ViewItems(self) = Reverse(src)

\* what the first n calls of gtk_tim_sort_step return, up to the one that
\* reports nothing left to do
RECURSIVE EngineSteps(_, _, _, _)
EngineSteps(sort, a, c, n) ==
  IF n = 0 \/ ~gtk_tim_sort_step(sort, a, c).more THEN <<>>
  ELSE <<gtk_tim_sort_step(sort, a, c)>>
         \o EngineSteps(gtk_tim_sort_step(sort, a, c).sort,
                        gtk_tim_sort_step(sort, a, c).items, c, n - 1)

\* the non-empty changes reported by the engine steps of one sort_step call:
\* all the steps the engine has left when finish is set, else those up to
\* the deadline, one at least
StepChanges(s, finish, budget, c) ==
  {ch \in {st.change : st \in Range(EngineSteps(s.sort, s.items, c,
                                      IF finish THEN 2 * Len(s.items) + 1
                                      ELSE Max(1, budget)))} : ch.len # 0}

\* C24 (step change range): for a view with an engine run pending, the range
\* (position, length) that one sort_step call returns is [min base, max
\* base + len) over the non-empty changes its engine steps report, (0, 0)
\* when there is none; it lies within the buffer, and every buffer index
\* whose entry the call has changed lies in it.
Thm_C24_StepRange ==
  (~aborted /\ self.sort_cb # 0) =>
    \A finish \in BOOLEAN, budget \in 0..MaxBudget, c \in EngineCmps :
      LET st == gtk_tim2_sort_model_sort_step(self, finish, budget, c)
          changes == StepChanges(self, finish, budget, c)
      IN  /\ st.pos + st.n_items <= Len(self.items)
          /\ changes = {} => (st.pos = 0 /\ st.n_items = 0)
          /\ \A ch \in changes :
               st.pos <= ch.base /\ ch.base + ch.len <= st.pos + st.n_items
          /\ changes # {} =>
               /\ \E ch \in changes : ch.base = st.pos
               /\ \E ch \in changes : ch.base + ch.len = st.pos + st.n_items
          /\ \A i \in 0..(Len(self.items) - 1) :
               st.self.items[i + 1] # self.items[i + 1]
                 => (st.pos <= i /\ i < st.pos + st.n_items)

\* an idle callback has moved the last two of three entries and announced
\* that range, the first entry left out
Wit_C24_StepRange ==
  /\ op = "sort_cb"
  /\ emitted = <<Note(1, 2, 2)>>
  /\ Len(self.items) = 3
  /\ InStep(self, src)

\* how often each entry occurs in s
BagOf(s) == [e \in Range(s) |-> Cardinality({i \in DOMAIN s : s[i] = e})]

\* C25 (idle callbacks only permute): for a view with an engine run pending,
\* one idle callback leaves the buffer length as it is and emits at most one
\* notification; a notification has removed = added = n > 0 and the entries of
\* buffer[position .. position + n) are the same, each as often, before and
\* after; a callback whose step reports no changed range emits nothing.
Thm_C25_TickPermutes ==
  (~aborted /\ self.sort_cb # 0) =>
    \A budget \in 0..MaxBudget, c \in EngineCmps :
      LET r == gtk_tim2_sort_model_sort_cb(self, budget, c)
      IN  /\ ~r.aborted
          /\ Len(r.self.items) = Len(self.items)
          /\ Len(r.emitted) <= 1
          /\ \A k \in DOMAIN r.emitted :
               /\ r.emitted[k].removed = r.emitted[k].added
               /\ r.emitted[k].added > 0
               /\ r.emitted[k].position + r.emitted[k].added <= Len(self.items)
               /\ BagOf(Slice(r.self.items, r.emitted[k].position, r.emitted[k].added))
                    = BagOf(Slice(self.items, r.emitted[k].position, r.emitted[k].added))
          /\ gtk_tim2_sort_model_sort_step(self, FALSE, budget, c).n_items = 0
               => r.emitted = <<>>

\* an idle callback has reordered the three entries of the buffer, announced
\* them as three removed and three added, and left the run pending
Wit_C25_TickPermutes ==
  /\ op = "sort_cb"
  /\ emitted = <<Note(0, 3, 3)>>
  /\ self.sort_cb # 0
  /\ Len(self.items) = 3
  /\ ViewItems(self) # src

\* C26 (synchronous mode leaves no run pending): in every state a call has
\* returned to, an engine run is pending only in incremental mode, and a
\* synchronous view with a source and a sorter with an order attached has its
\* buffer sorted.
Thm_C26_SyncNoPending ==
  ~aborted =>
    /\ self.sort_cb # 0 => self.incremental
    /\ (~self.incremental /\ gtk_tim2_sort_model_should_sort(self, cmp))
         => (self.sort_cb = 0 /\ Sorted(self, cmp))

\* a synchronous view has taken in an item the source added and returned
\* with three entries in sorted order, not the source's, and no run pending
Wit_C26_SyncNoPending ==
  /\ op = "items_changed"
  /\ ~self.incremental
  /\ self.sort_cb = 0
  /\ gtk_tim2_sort_model_should_sort(self, cmp)
  /\ Len(emitted) = 1
  /\ emitted[1].added > emitted[1].removed
  /\ Len(self.items) = 3
  /\ ViewItems(self) # src

\* C27: an engine run is pending only while a sorter is attached, it is the
\* sorter the engine was initialised with, and its order is not NONE.
Cex_C27_PendingHasSorter ==
  (~aborted /\ self.sort_cb # 0) =>
    /\ self.sorter # 0
    /\ self.sort.data = self.sorter
    /\ gtk_sorter_get_order(cmp) # "NONE"

\* C28 (dispose leaves nothing pending): dispose, called in any state, leaves
\* the view with no idle callback installed, an empty buffer and neither a
\* source nor a sorter attached.
Cex_C28_DisposeClean ==
  ~aborted =>
    /\ gtk_tim2_sort_model_dispose(self).sort_cb = 0
    /\ gtk_tim2_sort_model_dispose(self).items = <<>>
    /\ gtk_tim2_sort_model_dispose(self).model = 0
    /\ gtk_tim2_sort_model_dispose(self).sorter = 0

\* the buffer of a source edit whose translation is complete: the entries
\* the edit keeps, moved, followed by the added ones
Integrated(s, position, removed, new) ==
  Translated(s.items, position, removed, Len(new))
    \o [k \in 1..Len(new) |-> SortItem(new[k], position + k - 1)]

\* C29 (a source edit is integrated before it is observed): for every source
\* edit handled in sorted mode, when the view emits its notification, which
\* is when the handler returns, the buffer is as long as the new source and
\* each entry holds the new source's item at its position; the engine has
\* run on nothing but the completely translated buffer (in incremental mode
\* the buffer is that buffer, no step taken; in synchronous mode it is that
\* buffer sorted, with no run pending).
Cex_C29_EditIntegrated ==
  (~aborted /\ self.model # 0 /\ gtk_tim2_sort_model_should_sort(self, cmp)) =>
    \A position \in 0..Len(src) :
      \A removed \in 0..(Len(src) - position) :
        \A new \in NewItems(position, removed) :
          LET source == Splice(src, position, removed, new)
              r == gtk_tim2_sort_model_items_changed_cb(
                     self, source, cmp, position, removed, Len(new))
              whole == [gtk_tim2_sort_model_stop_sorting(self).self
                          EXCEPT !.items = Integrated(self, position, removed, new)]
          IN  (removed + Len(new) > 0 /\ ~r.aborted) =>
                /\ Len(r.emitted) = 1
                /\ Len(r.self.items) = Len(source)
                /\ InStep(r.self, source)
                /\ IF self.incremental
                     THEN r.self.items = whole.items
                     ELSE /\ r.self.sort_cb = 0
                          /\ Sorted(r.self, cmp)
                          /\ r.self.items
                               = gtk_tim2_sort_model_finish_sorting(
                                   gtk_tim2_sort_model_start_sorting(whole, <<>>).self,
                                   cmp).self.items

\* the engine as start_sorting leaves it for the buffer a when it is handed
\* no runs: nothing scanned yet
FreshEngine(s, a) ==
  gtk_tim_sort_set_max_merge_size(gtk_tim_sort_init(a, s.sorter), MaxMergeSize)

\* C30 (full restart after any edit): for every source edit handled in sorted
\* mode the runs update_items hands on are empty, whatever runs stop_sorting
\* captured; an incremental view that had a run pending or was given added
\* items returns with a run pending whose engine has scanned nothing of the
\* new buffer; a run pending before a pure removal is pending afterwards, and
\* a view with no run pending has none after a pure removal.
Thm_C30_FullRestart ==
  (~aborted /\ self.model # 0 /\ gtk_tim2_sort_model_should_sort(self, cmp)) =>
    \A position \in 0..Len(src) :
      \A removed \in 0..(Len(src) - position) :
        \A new \in NewItems(position, removed) :
          LET added == Len(new)
              st == gtk_tim2_sort_model_stop_sorting(self)
              r == gtk_tim2_sort_model_items_changed_cb(
                     self, Splice(src, position, removed, new), cmp,
                     position, removed, added)
          IN  (removed + added > 0 /\ ~r.aborted) =>
                /\ gtk_tim2_sort_model_update_items(
                     st.self, st.runs, position, removed, added).runs = <<>>
                /\ (self.incremental /\ (added > 0 \/ self.sort_cb # 0)) =>
                     /\ r.self.sort_cb # 0
                     /\ r.self.sort = FreshEngine(self, r.self.items)
                /\ (added = 0 /\ self.sort_cb # 0) => r.self.sort_cb # 0
                /\ (added = 0 /\ self.sort_cb = 0) =>
                     (r.self.sort_cb = 0 /\ r.self.sort = self.sort)

\* the source has removed one of three items from a view whose run was
\* pending; the run is pending again and its engine has scanned nothing
Wit_C30_FullRestart ==
  /\ op = "items_changed"
  /\ gtk_tim2_sort_model_should_sort(self, cmp)
  /\ Len(emitted) = 1
  /\ emitted[1].added < emitted[1].removed
  /\ self.sort_cb # 0
  /\ self.sort.runs = <<>>
  /\ self.sort.size = 2
  /\ Len(self.items) = 2

\* the views the handler of the sorter's "changed" signal can be entered
\* with: the view as it is, when a sorter is attached, and the view as
\* set_sorter enters the handler, with a sorter just attached
Hears ==
  IF self.sorter # 0 THEN {self, [self EXCEPT !.sorter = Other]}
  ELSE {[self EXCEPT !.sorter = 1]}

\* the buffer sorter_changed_cb starts the engine on: the buffer of s, or
\* the one create_items builds when that is empty
Populate(s, source, c) ==
  IF s.items = <<>> THEN gtk_tim2_sort_model_create_items(s, source, c).items
  ELSE s.items

\* C31 (a comparator change triggers a full re-sort): for every "changed"
\* signal of a sorter whose order is not NONE the handler stops a pending run
\* and restarts the engine over the whole buffer, populated first if it was
\* empty.  In incremental mode it returns with the run pending, the engine
\* having scanned nothing and the buffer as it was, and emits nothing; in
\* synchronous mode it returns with no run pending and the same entries
\* sorted under the new comparator, and emits at most one notification
\* (pos, n, n), n > 0, outside whose range no entry has moved.
Thm_C31_FullResort ==
  ~aborted =>
    \A s \in Hears : \A c \in Cmps \ {"none"} :
      LET r == gtk_tim2_sort_model_sorter_changed_cb(s, src, c)
          buf == Populate(s, src, c)
      IN  /\ ~r.aborted
          /\ Len(r.self.items) = Len(buf)
          /\ BagOf(r.self.items) = BagOf(buf)
          /\ IF s.incremental
               THEN /\ r.self.sort_cb # 0
                    /\ r.self.sort = FreshEngine(s, buf)
                    /\ r.self.items = buf
                    /\ r.emitted = <<>>
               ELSE /\ r.self.sort_cb = 0
                    /\ r.self.sort = SortIdle
                    /\ Sorted(r.self, c)
                    /\ Len(r.emitted) <= 1
                    /\ r.self.items # buf => Len(r.emitted) = 1
                    /\ \A k \in DOMAIN r.emitted :
                         /\ r.emitted[k].removed = r.emitted[k].added
                         /\ r.emitted[k].added > 0
                         /\ r.emitted[k].position + r.emitted[k].added <= Len(buf)
                         /\ \A i \in 1..Len(buf) :
                              r.self.items[i] # buf[i] =>
                                /\ r.emitted[k].position < i
                                /\ i <= r.emitted[k].position + r.emitted[k].added

\* the attached sorter of a synchronous view has changed what it compares by
\* and the view has returned with its three entries in the new order,
\* announced as one range
Wit_C31_FullResort ==
  /\ op = "sorter_changed"
  /\ ~self.incremental
  /\ self.sort_cb = 0
  /\ gtk_tim2_sort_model_should_sort(self, cmp)
  /\ Len(emitted) = 1
  /\ emitted[1].removed = emitted[1].added
  /\ Len(self.items) = 3
  /\ ViewItems(self) # src

\* C32: when the attached sorter signals a change to order NONE while the
\* buffer holds n > 1 entries, the buffer is cleared and the view emits the
\* one notification (0, n, n).
Cex_C32_NoneFullRange ==
  (~aborted /\ self.sorter # 0 /\ Len(self.items) > 1) =>
    LET r == gtk_tim2_sort_model_sorter_changed_cb(self, src, "none")
    IN  /\ r.self.items = <<>>
        /\ r.emitted = <<Note(0, Len(self.items), Len(self.items))>>

\* the indices (0-based) of the buffer entries of s that are not at their
\* source position
Displaced(s) == {i \in 0..(Len(s.items) - 1) : s.items[i + 1].position # i}

\* C32, amended: when the attached sorter signals a change to order NONE
\* while the buffer holds entries, the handler stops a pending run and clears
\* the buffer; it emits nothing when every entry stood at its source
\* position, and else the one notification (lo, hi - lo + 1, hi - lo + 1), lo
\* and hi the first and the last buffer index whose entry did not.
Thm_C32_NoneDisplacedRange ==
  (~aborted /\ self.sorter # 0 /\ self.items # <<>>) =>
    LET r == gtk_tim2_sort_model_sorter_changed_cb(self, src, "none")
        at == Displaced(self)
        lo == CHOOSE i \in at : \A j \in at : i <= j
        hi == CHOOSE i \in at : \A j \in at : i >= j
    IN  /\ ~r.aborted
        /\ r.self.items = <<>>
        /\ r.self.sort_cb = 0
        /\ r.self.sort = SortIdle
        /\ r.self.model = self.model /\ r.self.sorter = self.sorter
        /\ r.emitted = IF at = {} THEN <<>>
                       ELSE <<Note(lo, hi - lo + 1, hi - lo + 1)>>

\* the sorter of a view over three items, the first of which stood where
\* the source has it, has changed to order NONE: the buffer is gone and the
\* notification spans the other two
Wit_C32_NoneDisplacedRange ==
  /\ op = "sorter_changed"
  /\ cmp = "none"
  /\ self.sorter # 0
  /\ self.items = <<>>
  /\ Len(src) = 3
  /\ emitted = <<Note(1, 2, 2)>>

\* how often the item e occurs in the sequence of items s
Count(s, e) == Cardinality({i \in DOMAIN s : s[i] = e})

SameItems(a, b) == \A e \in Elems : Count(a, e) = Count(b, e)

\* a call that took the view from `before` to `after` and moved the
\* references refs has released no reference the view did not hold, and
\* leaves the view with one reference for each entry of its buffer if it
\* held one for each before
Ledger(before, after, refs) ==
  \A e \in Elems :
    /\ Count(refs.released, e) <= Count(ViewItems(before), e)
    /\ Count(ViewItems(after), e)
         = Count(ViewItems(before), e) - Count(refs.released, e)
             + Count(refs.acquired, e)

NoRefs == [acquired |-> <<>>, released |-> <<>>]

\* a source edit: handled in sorted mode it releases one reference for each
\* removed item and acquires one for each added item
RefsEdit ==
  self.model # 0 =>
    \A position \in 0..Len(src) :
      \A removed \in 0..(Len(src) - position) :
        \A new \in NewItems(position, removed) :
          LET source == Splice(src, position, removed, new)
              r == gtk_tim2_sort_model_items_changed_cb(
                     self, source, cmp, position, removed, Len(new))
              refs == items_changed_cb_refs(self, source, cmp, position, removed, Len(new))
              st == gtk_tim2_sort_model_stop_sorting(self).self
          IN  ~r.aborted =>
                /\ Ledger(self, r.self, refs)
                /\ (gtk_tim2_sort_model_should_sort(self, cmp) /\ removed + Len(new) > 0) =>
                     /\ ~update_items_refs(st, position, removed, Len(new)).aborted
                     /\ update_items_refs(st, position, removed, Len(new)).items
                          = gtk_tim2_sort_model_update_items(
                              st, <<>>, position, removed, Len(new)).self.items
                     /\ SameItems(refs.released, Slice(src, position, removed))
                     /\ SameItems(refs.acquired, new)

\* the calls that clear the buffer release every reference, and the calls
\* that populate it acquire one for each entry
RefsClear ==
  /\ \A s \in Hears : \A c \in Cmps :
       /\ Ledger(s, gtk_tim2_sort_model_sorter_changed_cb(s, src, c).self,
                 sorter_changed_cb_refs(s, src, c))
       /\ c = "none" =>
            /\ gtk_tim2_sort_model_sorter_changed_cb(s, src, c).self.items = <<>>
            /\ SameItems(sorter_changed_cb_refs(s, src, c).released, ViewItems(s))
  /\ \A new \in Sources :
       \A model \in {0, IF self.model = 0 THEN 1 ELSE Other} :
         LET items == IF model = 0 THEN <<>> ELSE new
             r == gtk_tim2_sort_model_set_model(self, src, model, items, cmp)
         IN  ~r.aborted =>
               /\ Ledger(self, r.self, set_model_refs(self, model, items, cmp))
               /\ SameItems(set_model_refs(self, model, items, cmp).released,
                            ViewItems(self))
  /\ gtk_tim2_sort_model_dispose(self).items = <<>>
  /\ Ledger(self, gtk_tim2_sort_model_dispose(self),
            [acquired |-> <<>>, released |-> clear_model_refs(self)])

\* the other calls neither acquire nor release a reference
RefsKept ==
  /\ Ledger(self, gtk_tim2_sort_model_set_sorter(self, src, 0, "none").self, NoRefs)
  /\ \A incremental \in BOOLEAN, c \in EngineCmps :
       Ledger(self, gtk_tim2_sort_model_set_incremental(self, incremental, c).self, NoRefs)
  /\ self.sort_cb # 0 =>
       \A budget \in 0..MaxBudget, c \in EngineCmps :
         Ledger(self, gtk_tim2_sort_model_sort_cb(self, budget, c).self, NoRefs)

\* C33 (I4 reference accounting): the view holds one reference for each
\* buffer entry and none else: no call releases a reference the view does
\* not hold, and each call leaves as many references to an item as the buffer
\* has entries for it.  A source edit handled in sorted mode releases the
\* reference of each removed item once, no second time when the array is
\* shrunk after compaction, and acquires one for each added item; clearing
\* the buffer releases all of them.
Cex_C33_References ==
  ~aborted => (RefsEdit /\ RefsClear /\ RefsKept)

\* C34: set_model with the model that is attached and set_sorter with the
\* sorter that is attached leave the view as it is, buffer, engine run and
\* attached objects, and emit nothing.
Cex_C34_SameAttached ==
  ~aborted =>
    /\ self.model # 0 =>
         gtk_tim2_sort_model_set_model(self, src, self.model, src, cmp) = Done(self, <<>>)
    /\ self.sorter # 0 =>
         gtk_tim2_sort_model_set_sorter(self, src, self.sorter, cmp) = Done(self, <<>>)

====
